---- MODULE Spec2Model ----
(***************************************************************************)
(* Model of the Cargill team/role CRUD service (src/app.py).               *)
(*                                                                         *)
(* The storage is the three tables of the application: teams, roles and    *)
(* the join table team_role.  Two specifications are given over it:        *)
(*   Spec      every HTTP handler runs to completion as one step; the      *)
(*             last request and its response are part of the state.        *)
(*   SpecConc  the write handlers are served by concurrent workers and     *)
(*             are split at their storage round trips (query, lazy load    *)
(*             of a relationship collection, flush + commit).              *)
(***************************************************************************)
EXTENDS Integers, FiniteSets, Sequences, TLC

VARIABLES teams, roles, team_role, request, response, w

vars == <<teams, roles, team_role, request, response, w>>

db == <<teams, roles, team_role>>

\* ------------------------------------------------------------------ bounds

\* Largest primary key the storage hands out.
MaxId == 2

Ids == 1..MaxId

\* ------------------------------------------------------------------ inputs

TeamNames == {"Ops", "Dev"}

RoleNames == {"admin", "viewer"}

Descs == {"Operations", "misc"}

RoleDescs == {"read only"}

Workers == {"w1", "w2"}

NoData == [k \in {} |-> ""]

\* JSON objects holding any subset of the keys of vals, each key with a value
\* of vals[key].
Dicts(vals) ==
  UNION {{d \in [s -> UNION {vals[k] : k \in s}] : \A k \in s : d[k] \in vals[k]} :
         s \in SUBSET DOMAIN vals}

\* Request bodies: the Content-Type says JSON or not (request.is_json), the
\* payload parses as JSON or not (request.get_json), and the parsed object.
Bodies(vals) ==
  {[is_json |-> FALSE, parses |-> FALSE, data |-> NoData],
   [is_json |-> TRUE, parses |-> FALSE, data |-> NoData]}
  \cup {[is_json |-> TRUE, parses |-> TRUE, data |-> d] : d \in Dicts(vals)}

CreateTeamBodies == Bodies([name |-> TeamNames, description |-> Descs])

CreateRoleBodies == Bodies([name |-> RoleNames, description |-> RoleDescs])

AssignBodies == Bodies([team_name |-> TeamNames, role_name |-> RoleNames])

\* The concurrent workers create every team with the same description and
\* know a single role name.
ConcTeamBodies == Bodies([name |-> TeamNames, description |-> {"Operations"}])

ConcRoleBodies == Bodies([name |-> {"admin"}, description |-> RoleDescs])

ConcAssignBodies == Bodies([team_name |-> TeamNames, role_name |-> {"admin"}])

\* ----------------------------------------------------------------- storage

\* class Team / class Role: a row is created from a name and a description.
Row(name, description) == [name |-> name, description |-> description]

\* The empty team_role table: the number of rows for each (team_id, role_id).
NoRows == [p \in Ids \X Ids |-> 0]

\* Columns declared without unique=True.
NoUniqueViolation(table, name) == FALSE

\* unique=True on teams.name / roles.name: an INSERT of a name that a stored
\* row already has is refused by the storage (IntegrityError).
UniqueViolation(table, name) == \E i \in DOMAIN table : table[i].name = name

\* A join table declared without its foreign keys.
NoForeignKeyViolation(tms, rls, tid, rid) == FALSE

\* ForeignKey('teams.id'), ForeignKey('roles.id') on team_role: an INSERT of
\* a row whose team or role is not stored is refused by the storage.
ForeignKeyViolation(tms, rls, tid, rid) ==
  tid \notin DOMAIN tms \/ rid \notin DOMAIN rls

\* The same constraints seen from a DELETE: rows of team_role still refer to
\* the row being deleted.
StillReferenced(tr, refs) == \E p \in refs : tr[p] > 0

\* primary_key=True on an Integer column: the storage generates the id of an
\* inserted row.  Which one depends on the backend (a sequence never hands
\* an id out twice, a rowid may reuse the id of a deleted row): it is any id
\* no stored row of the table has.
FreeIds(table) == Ids \ DOMAIN table

\* The ids an INSERT of the row can come back with: none is generated for a
\* row the storage refuses (0 stands for new_team.id left unset).
NewIds(table, row) == IF UniqueViolation(table, row.name) THEN {0} ELSE FreeIds(table)

Insert(table, id, row) == [i \in DOMAIN table \cup {id} |-> IF i = id THEN row ELSE table[i]]

\* A delete that is never flushed.
DeleteNothing(table, id) == table

Delete(table, id) == [i \in DOMAIN table \ {id} |-> table[i]]

\* Team.query.filter(Team.name == n).first(): the id of the row, 0 for None.
FirstByName(table, n) ==
  IF \E i \in DOMAIN table : table[i].name = n
    THEN CHOOSE i \in DOMAIN table : table[i].name = n
    ELSE 0

\* serialize with the two text columns exchanged.
serialize_swapped(table, id) ==
  [id |-> id, name |-> table[id].description, description |-> table[id].name]

\* Team.serialize / Role.serialize
serialize(table, id) ==
  [id |-> id, name |-> table[id].name, description |-> table[id].description]

RECURSIVE SumOver(_, _)
SumOver(f, S) ==
  IF S = {} THEN 0
  ELSE LET x == CHOOSE y \in S : TRUE IN f[x] + SumOver(f, S \ {x})

\* Lazy load of team.roles: the loaded collection holds a role once per row
\* of team_role joined to a stored role.
LoadRoles(tr, rls, tid) ==
  [rid \in Ids |-> IF rid \in DOMAIN rls THEN tr[<<tid, rid>>] ELSE 0]

\* Lazy load of role.teams (the backref).
LoadTeams(tr, tms, rid) ==
  [tid \in Ids |-> IF tid \in DOMAIN tms THEN tr[<<tid, rid>>] ELSE 0]

\* Team.get_roles: the names of the loaded roles, each as often as loaded.
get_roles(tr, rls, tid) ==
  LET loaded == LoadRoles(tr, rls, tid)
      linked == {rid \in Ids : loaded[rid] > 0}
  IN [n \in {rls[rid].name : rid \in linked} |->
        loaded[CHOOSE rid \in linked : rls[rid].name = n]]

\* ---------------------------------------------------------------- responses

\* {"success": True, "message": ...}, 200
Ok(message) == [status |-> 200, success |-> TRUE, message |-> message]

\* {"success": True, "data": ...}, 200
OkData(data) == [status |-> 200, success |-> TRUE, data |-> data]

\* {"success": False, "message": ...}, status
Fail(status, message) == [status |-> status, success |-> FALSE, message |-> message]

\* An exception that leaves the view function: the framework answers 500
\* with no body of the application.
ServerError == [status |-> 500]

NotJson == Fail(400, <<"The request payload is not in JSON format">>)

\* ------------------------------------------------------------ read handlers

\* get_team / get_role: query.get(id), serialize, 200; 404 when there is no row.
GetResponse(entity, table, id) ==
  IF id \in DOMAIN table
    THEN OkData(serialize(table, id))
    ELSE Fail(404, <<entity, " id ", ToString(id), " not found">>)

\* get_teams: note the key "Success" of this one handler.
GetTeamsResponse(tms) ==
  LET results == {serialize(tms, i) : i \in DOMAIN tms}
  IN [status |-> 200, Success |-> TRUE, count |-> Cardinality(results), data |-> results]

\* get_roles (the list handler)
GetRolesResponse(rls) ==
  LET results == {serialize(rls, i) : i \in DOMAIN rls}
  IN [status |-> 200, success |-> TRUE, count |-> Cardinality(results), data |-> results]

\* get_team_roles: lookup by name, Team.get_roles, 200; 404 when no team.
GetTeamRolesResponse(tms, rls, tr, team_name) ==
  LET team == FirstByName(tms, team_name)
  IN IF team # 0
       THEN OkData(get_roles(tr, rls, team))
       ELSE Fail(404, <<"Team ", team_name, " not found">>)

\* ----------------------------------------------------------- write handlers

\* The try block of create_team / create_role up to db.session.add: what the
\* handler does before it reaches the storage.
\*   "respond"  the else branch: 400
\*   "error"    get_json raised (data is unbound) or data['name'] raised:
\*              the except clause raises again formatting data['name']
\*   "conflict" data['description'] raised: the except clause answers 409
\*   "add"      a new row is in the session
CreateParse(entity, body) ==
  IF ~body.is_json THEN [kind |-> "respond", response |-> NotJson]
  ELSE IF ~body.parses THEN [kind |-> "error", response |-> ServerError]
  ELSE IF "name" \notin DOMAIN body.data THEN [kind |-> "error", response |-> ServerError]
  ELSE IF "description" \notin DOMAIN body.data
    THEN [kind |-> "conflict",
          response |-> Fail(409, <<entity, " ", body.data["name"], " already exists">>)]
  ELSE [kind |-> "add", row |-> Row(body.data["name"], body.data["description"])]

\* A commit that merges the new row into the stored row of the same name.
CreateCommitMerge(table, id, row) ==
  IF UniqueViolation(table, row.name)
    THEN [ok |-> TRUE,
          table |-> [i \in DOMAIN table |-> IF table[i].name = row.name THEN row ELSE table[i]]]
    ELSE [ok |-> TRUE, table |-> Insert(table, id, row)]

\* db.session.commit() of a created row: the INSERT and the commit.
CreateCommit(table, id, row) ==
  IF UniqueViolation(table, row.name)
    THEN [ok |-> FALSE, table |-> table]
    ELSE [ok |-> TRUE, table |-> Insert(table, id, row)]

\* create_team / create_role without the try / except around the commit.
CreateResponseUncaught(entity, row, ok) ==
  IF ok
    THEN Ok(<<entity, " ", row.name, " has been created successfully">>)
    ELSE ServerError

\* The end of create_team / create_role: 200 after the commit, 409 from the
\* except clause when the commit raised.
CreateResponse(entity, row, ok) ==
  IF ok
    THEN Ok(<<entity, " ", row.name, " has been created successfully">>)
    ELSE Fail(409, <<entity, " ", row.name, " already exists">>)

\* The flush of db.session.delete(team): DELETE the loaded collection's rows
\* of team_role (refs: the pairs of the entity, loaded: how many rows of each
\* pair the collection held), then DELETE the entity, then commit.
\*   - the DELETE on team_role matching another number of rows than loaded
\*     raises StaleDataError on backends that report row counts and is not
\*     noticed on the others: both outcomes are possible;
\*   - rows of team_role left referring to the entity make the storage refuse
\*     its DELETE (foreign key);
\*   - an entity already gone is only warned about.
DeleteFlush(table, tr, id, refs, loaded) ==
  LET doomed == {p \in refs : loaded[p] > 0}
      matched == SumOver(tr, doomed)
      expected == SumOver(loaded, doomed)
      tr1 == [p \in DOMAIN tr |-> IF p \in doomed THEN 0 ELSE tr[p]]
      done == IF id \in DOMAIN table /\ StillReferenced(tr1, refs)
                THEN [ok |-> FALSE]
                ELSE [ok |-> TRUE, table |-> Delete(table, id), team_role |-> tr1]
  IN IF matched # expected THEN {[ok |-> FALSE], done} ELSE {done}

TeamRefs(tid) == {<<tid, rid>> : rid \in Ids}

RoleRefs(rid) == {<<tid, rid>> : tid \in Ids}

\* The loaded collections as row counts per pair of team_role.
LoadedRoles(tr, rls, tid) ==
  [p \in Ids \X Ids |-> IF p[1] = tid THEN LoadRoles(tr, rls, tid)[p[2]] ELSE 0]

LoadedTeams(tr, tms, rid) ==
  [p \in Ids \X Ids |-> IF p[2] = rid THEN LoadTeams(tr, tms, rid)[p[1]] ELSE 0]

\* delete_team / delete_role run to completion: every outcome the handler can
\* have on the given tables, as the tables it leaves and its response.
DeleteOutcomes(entity, deleted, table, tr, id, refs, loaded) ==
  IF id \in DOMAIN table
    THEN {IF done.ok
            THEN [table |-> done.table, team_role |-> done.team_role,
                  response |-> Ok(<<deleted, ToString(id), " Deleted success">>)]
            ELSE [table |-> table, team_role |-> tr, response |-> ServerError] :
          done \in DeleteFlush(table, tr, id, refs, loaded)}
    ELSE {[table |-> table, team_role |-> tr, response |-> GetResponse(entity, table, id)]}

DeleteTeam(tms, rls, tr, team_id) ==
  DeleteOutcomes("Team", "Team ", tms, tr, team_id, TeamRefs(team_id),
                 LoadedRoles(tr, rls, team_id))

DeleteRole(tms, rls, tr, role_id) ==
  DeleteOutcomes("Role", "Role id ", rls, tr, role_id, RoleRefs(role_id),
                 LoadedTeams(tr, tms, role_id))

\* validate_json: request.json raises BadRequest for a JSON payload that does
\* not parse, and the except clause names BadRequest, which the module never
\* imports: evaluating the clause raises NameError.  TRUE when the wrapper
\* lets the request through to the view function (a payload not declared as
\* JSON reads as None and reaches the handler's own else branch).
validate_json(body) == ~(body.is_json /\ ~body.parses)

\* assign_role up to the two lookups' arguments.
AssignParse(body) ==
  IF ~validate_json(body) THEN [kind |-> "error", response |-> ServerError]
  ELSE IF ~body.is_json THEN [kind |-> "respond", response |-> NotJson]
  ELSE IF {"team_name", "role_name"} \subseteq DOMAIN body.data
    THEN [kind |-> "lookup", team_name |-> body.data["team_name"],
          role_name |-> body.data["role_name"]]
  ELSE [kind |-> "error", response |-> ServerError]

\* The two checks in the other order: the role first.
AssignMissingRoleFirst(team, role, team_name, role_name) ==
  IF role = 0 THEN Fail(404, <<"Role ", role_name, " does not exist">>)
  ELSE Fail(404, <<"Team ", team_name, " does not exist">>)

\* if not team / if not role: the 404 responses, the team first.
AssignMissing(team, role, team_name, role_name) ==
  IF team = 0 THEN Fail(404, <<"Team ", team_name, " does not exist">>)
  ELSE Fail(404, <<"Role ", role_name, " does not exist">>)

\* A commit with the append left out.
AssignFlushNoAppend(tms, rls, tr, team, role, held) == [ok |-> TRUE, team_role |-> tr]

\* team.roles.append(role); db.session.commit(): a role the loaded collection
\* already holds adds nothing to flush; otherwise a row of team_role is
\* INSERTed, which the storage refuses when the team or the role is gone.
AssignFlush(tms, rls, tr, team, role, held) ==
  IF held THEN [ok |-> TRUE, team_role |-> tr]
  ELSE IF ForeignKeyViolation(tms, rls, team, role) THEN [ok |-> FALSE]
  ELSE [ok |-> TRUE,
        team_role |-> [tr EXCEPT ![<<team, role>>] = tr[<<team, role>>] + 1]]

AssignOk(team_name, role_name) ==
  Ok(<<"Assign Role ", role_name, " to Team ", team_name, " is success">>)

\* ------------------------------------------------------------ initial state

NoTable == [i \in {} |-> Row("", "")]

Idle == [pc |-> "idle"]

Init ==
  /\ teams = NoTable
  /\ roles = NoTable
  /\ team_role = NoRows
  /\ request = [op |-> "none"]
  /\ response = [status |-> 0]
  /\ w = [p \in Workers |-> Idle]

\* ------------------------------------------- Spec: one handler, one step

\* GET /team/<team_id>
get_team ==
  \E team_id \in Ids :
    /\ request' = [op |-> "get_team", team_id |-> team_id]
    /\ response' = GetResponse("Team", teams, team_id)
    /\ UNCHANGED <<teams, roles, team_role, w>>

\* GET /teams
get_teams ==
  /\ request' = [op |-> "get_teams"]
  /\ response' = GetTeamsResponse(teams)
  /\ UNCHANGED <<teams, roles, team_role, w>>

\* GET /role/<role_id>
get_role ==
  \E role_id \in Ids :
    /\ request' = [op |-> "get_role", role_id |-> role_id]
    /\ response' = GetResponse("Role", roles, role_id)
    /\ UNCHANGED <<teams, roles, team_role, w>>

\* GET /roles
get_roles_list ==
  /\ request' = [op |-> "get_roles"]
  /\ response' = GetRolesResponse(roles)
  /\ UNCHANGED <<teams, roles, team_role, w>>

\* GET /team/<team_name>/roles
get_team_roles ==
  \E team_name \in TeamNames :
    /\ request' = [op |-> "get_team_roles", team_name |-> team_name]
    /\ response' = GetTeamRolesResponse(teams, roles, team_role, team_name)
    /\ UNCHANGED <<teams, roles, team_role, w>>

\* POST /teams
create_team ==
  \E body \in CreateTeamBodies :
    LET parsed == CreateParse("Team", body)
    IN /\ request' = [op |-> "create_team", body |-> body]
       /\ UNCHANGED <<roles, team_role, w>>
       /\ IF parsed.kind = "add"
            THEN \E id \in NewIds(teams, parsed.row) :
                   LET done == CreateCommit(teams, id, parsed.row)
                   IN /\ teams' = done.table
                      /\ response' = CreateResponse("Team", parsed.row, done.ok)
            ELSE /\ teams' = teams
                 /\ response' = parsed.response

\* POST /roles
create_role ==
  \E body \in CreateRoleBodies :
    LET parsed == CreateParse("Role", body)
    IN /\ request' = [op |-> "create_role", body |-> body]
       /\ UNCHANGED <<teams, team_role, w>>
       /\ IF parsed.kind = "add"
            THEN \E id \in NewIds(roles, parsed.row) :
                   LET done == CreateCommit(roles, id, parsed.row)
                   IN /\ roles' = done.table
                      /\ response' = CreateResponse("Role", parsed.row, done.ok)
            ELSE /\ roles' = roles
                 /\ response' = parsed.response

\* DELETE /team/<team_id>
delete_team ==
  \E team_id \in Ids :
    \E out \in DeleteTeam(teams, roles, team_role, team_id) :
      /\ request' = [op |-> "delete_team", team_id |-> team_id]
      /\ teams' = out.table
      /\ team_role' = out.team_role
      /\ response' = out.response
      /\ UNCHANGED <<roles, w>>

\* DELETE /role/<role_id>
delete_role ==
  \E role_id \in Ids :
    \E out \in DeleteRole(teams, roles, team_role, role_id) :
      /\ request' = [op |-> "delete_role", role_id |-> role_id]
      /\ roles' = out.table
      /\ team_role' = out.team_role
      /\ response' = out.response
      /\ UNCHANGED <<teams, w>>

\* POST /team/assign/role
assign_role ==
  \E body \in AssignBodies :
    LET parsed == AssignParse(body)
    IN /\ request' = [op |-> "assign_role", body |-> body]
       /\ UNCHANGED <<teams, roles, w>>
       /\ IF parsed.kind = "lookup"
            THEN LET team == FirstByName(teams, parsed.team_name)
                     role == FirstByName(roles, parsed.role_name)
                 IN IF team = 0 \/ role = 0
                      THEN /\ team_role' = team_role
                           /\ response' = AssignMissing(team, role, parsed.team_name,
                                                        parsed.role_name)
                      ELSE LET done == AssignFlush(teams, roles, team_role, team, role,
                                                   LoadRoles(team_role, roles, team)[role] > 0)
                           IN IF done.ok
                                THEN /\ team_role' = done.team_role
                                     /\ response' = AssignOk(parsed.team_name,
                                                             parsed.role_name)
                                ELSE /\ team_role' = team_role
                                     /\ response' = ServerError
            ELSE /\ team_role' = team_role
                 /\ response' = parsed.response

Next ==
  \/ get_team
  \/ get_teams
  \/ get_role
  \/ get_roles_list
  \/ get_team_roles
  \/ create_team
  \/ create_role
  \/ delete_team
  \/ delete_role
  \/ assign_role

Spec == Init /\ [][Next]_vars

\* ------------------------- SpecConc: concurrent workers, one step per round trip
\*
\* A worker serves one write request at a time.  w[p].pc is the statement it
\* is about to run; "done" holds the status of the response until it is sent.

Goto(p, state) ==
  /\ w' = [w EXCEPT ![p] = state]
  /\ UNCHANGED <<request, response>>

Done(op, resp) == [pc |-> "done", op |-> op, status |-> resp.status]

\* create_team up to db.session.add(new_team)
c_create_team_add(p) ==
  /\ w[p].pc = "idle"
  /\ \E body \in ConcTeamBodies :
       LET parsed == CreateParse("Team", body)
       IN Goto(p, IF parsed.kind = "add"
                    THEN [pc |-> "create_team_commit", row |-> parsed.row]
                    ELSE Done("create_team", parsed.response))
  /\ UNCHANGED db

\* create_team: db.session.commit(), return 200 / except: return 409
c_create_team_commit(p) ==
  /\ w[p].pc = "create_team_commit"
  /\ \E id \in NewIds(teams, w[p].row) :
       LET done == CreateCommit(teams, id, w[p].row)
       IN /\ teams' = done.table
          /\ Goto(p, Done("create_team", CreateResponse("Team", w[p].row, done.ok)))
  /\ UNCHANGED <<roles, team_role>>

\* create_role up to db.session.add(new_role)
c_create_role_add(p) ==
  /\ w[p].pc = "idle"
  /\ \E body \in ConcRoleBodies :
       LET parsed == CreateParse("Role", body)
       IN Goto(p, IF parsed.kind = "add"
                    THEN [pc |-> "create_role_commit", row |-> parsed.row]
                    ELSE Done("create_role", parsed.response))
  /\ UNCHANGED db

\* create_role: db.session.commit(), return 200 / except: return 409
c_create_role_commit(p) ==
  /\ w[p].pc = "create_role_commit"
  /\ \E id \in NewIds(roles, w[p].row) :
       LET done == CreateCommit(roles, id, w[p].row)
       IN /\ roles' = done.table
          /\ Goto(p, Done("create_role", CreateResponse("Role", w[p].row, done.ok)))
  /\ UNCHANGED <<teams, team_role>>

\* delete_team: team = Team.query.get(team_id); if team / else 404
c_delete_team_get(p) ==
  /\ w[p].pc = "idle"
  /\ \E team_id \in Ids :
       Goto(p, IF team_id \in DOMAIN teams
                 THEN [pc |-> "delete_team_load", id |-> team_id]
                 ELSE Done("delete_team", GetResponse("Team", teams, team_id)))
  /\ UNCHANGED db

\* delete_team: db.session.delete(team) loads team.roles
c_delete_team_load(p) ==
  /\ w[p].pc = "delete_team_load"
  /\ Goto(p, [pc |-> "delete_team_commit", id |-> w[p].id,
              loaded |-> LoadedRoles(team_role, roles, w[p].id)])
  /\ UNCHANGED db

\* delete_team: db.session.commit(), return 200; an exception is not caught
c_delete_team_commit(p) ==
  /\ w[p].pc = "delete_team_commit"
  /\ \E done \in DeleteFlush(teams, team_role, w[p].id, TeamRefs(w[p].id), w[p].loaded) :
       IF done.ok
         THEN /\ teams' = done.table
              /\ team_role' = done.team_role
              /\ Goto(p, Done("delete_team", Ok(<<>>)))
         ELSE /\ UNCHANGED <<teams, team_role>>
              /\ Goto(p, Done("delete_team", ServerError))
  /\ UNCHANGED roles

\* delete_role: role = Role.query.get(role_id); if role / else 404
c_delete_role_get(p) ==
  /\ w[p].pc = "idle"
  /\ \E role_id \in Ids :
       Goto(p, IF role_id \in DOMAIN roles
                 THEN [pc |-> "delete_role_load", id |-> role_id]
                 ELSE Done("delete_role", GetResponse("Role", roles, role_id)))
  /\ UNCHANGED db

\* delete_role: db.session.delete(role) loads role.teams
c_delete_role_load(p) ==
  /\ w[p].pc = "delete_role_load"
  /\ Goto(p, [pc |-> "delete_role_commit", id |-> w[p].id,
              loaded |-> LoadedTeams(team_role, teams, w[p].id)])
  /\ UNCHANGED db

\* delete_role: db.session.commit(), return 200; an exception is not caught
c_delete_role_commit(p) ==
  /\ w[p].pc = "delete_role_commit"
  /\ \E done \in DeleteFlush(roles, team_role, w[p].id, RoleRefs(w[p].id), w[p].loaded) :
       IF done.ok
         THEN /\ roles' = done.table
              /\ team_role' = done.team_role
              /\ Goto(p, Done("delete_role", Ok(<<>>)))
         ELSE /\ UNCHANGED <<roles, team_role>>
              /\ Goto(p, Done("delete_role", ServerError))
  /\ UNCHANGED teams

\* assign_role: validate_json, request.is_json, data["team_name"], data["role_name"]
c_assign_role_parse(p) ==
  /\ w[p].pc = "idle"
  /\ \E body \in ConcAssignBodies :
       LET parsed == AssignParse(body)
       IN Goto(p, IF parsed.kind = "lookup"
                    THEN [pc |-> "assign_role_team", team_name |-> parsed.team_name,
                          role_name |-> parsed.role_name]
                    ELSE Done("assign_role", parsed.response))
  /\ UNCHANGED db

\* assign_role: team = Team.query.filter(Team.name == team_name).first()
c_assign_role_team(p) ==
  /\ w[p].pc = "assign_role_team"
  /\ Goto(p, [pc |-> "assign_role_role", team |-> FirstByName(teams, w[p].team_name),
              role_name |-> w[p].role_name])
  /\ UNCHANGED db

\* assign_role: role = Role.query.filter(Role.name == role_name).first(),
\* if not team: 404, if not role: 404
c_assign_role_role(p) ==
  /\ w[p].pc = "assign_role_role"
  /\ LET team == w[p].team
         role == FirstByName(roles, w[p].role_name)
     IN Goto(p, IF team = 0 \/ role = 0
                  THEN Done("assign_role", AssignMissing(team, role, "", w[p].role_name))
                  ELSE [pc |-> "assign_role_append", team |-> team, role |-> role])
  /\ UNCHANGED db

\* assign_role: team.roles.append(role) loads team.roles
c_assign_role_append(p) ==
  /\ w[p].pc = "assign_role_append"
  /\ Goto(p, [pc |-> "assign_role_commit", team |-> w[p].team, role |-> w[p].role,
              held |-> LoadRoles(team_role, roles, w[p].team)[w[p].role] > 0])
  /\ UNCHANGED db

\* assign_role: db.session.commit(), return 200; an exception is not caught
c_assign_role_commit(p) ==
  /\ w[p].pc = "assign_role_commit"
  /\ LET done == AssignFlush(teams, roles, team_role, w[p].team, w[p].role, w[p].held)
     IN IF done.ok
          THEN /\ team_role' = done.team_role
               /\ Goto(p, Done("assign_role", AssignOk("", "")))
          ELSE /\ team_role' = team_role
               /\ Goto(p, Done("assign_role", ServerError))
  /\ UNCHANGED <<teams, roles>>

\* The response is sent and the request's session is removed.
c_respond(p) ==
  /\ w[p].pc = "done"
  /\ Goto(p, Idle)
  /\ UNCHANGED db

NextConc ==
  \E p \in Workers :
    \/ c_create_team_add(p)
    \/ c_create_team_commit(p)
    \/ c_create_role_add(p)
    \/ c_create_role_commit(p)
    \/ c_delete_team_get(p)
    \/ c_delete_team_load(p)
    \/ c_delete_team_commit(p)
    \/ c_delete_role_get(p)
    \/ c_delete_role_load(p)
    \/ c_delete_role_commit(p)
    \/ c_assign_role_parse(p)
    \/ c_assign_role_team(p)
    \/ c_assign_role_role(p)
    \/ c_assign_role_append(p)
    \/ c_assign_role_commit(p)
    \/ c_respond(p)

SpecConc == Init /\ [][NextConc]_vars

\* ================================================================== claims

IsOp(req, op) == req.op = op

\* A create request whose JSON body parsed and holds a name.
HasName(req) == req.body.is_json /\ req.body.parses /\ "name" \in DOMAIN req.body.data

\* -------------------------------------------------------------------- C1
\* C1: when create_team answers 200, get_team on the id given to the new team
\* answers 200 with the name and the description of the request body; and no
\* step changes what get_team answers for a team that the step leaves stored.
C1_RoundTrip ==
  [][/\ (IsOp(request', "create_team") /\ response'.status = 200) =>
         \E id \in DOMAIN teams' \ DOMAIN teams :
           LET got == GetResponse("Team", teams', id)
           IN /\ got.status = 200
              /\ got.data.id = id
              /\ got.data.name = request'.body.data["name"]
              /\ got.data.description = request'.body.data["description"]
     /\ \A id \in DOMAIN teams \cap DOMAIN teams' :
         GetResponse("Team", teams', id) = GetResponse("Team", teams, id)
    ]_vars

\* A team was just created and both stored teams read back as created.
C1_Witness ==
  /\ IsOp(request, "create_team")
  /\ response.status = 200
  /\ Cardinality(DOMAIN teams) = 2
  /\ \E id \in DOMAIN teams :
       /\ GetResponse("Team", teams, id).data.name = request.body.data["name"]
       /\ GetResponse("Team", teams, id).data.description = request.body.data["description"]

\* -------------------------------------------------------------------- C2
\* C2: create_team with the name of a stored team answers 409 and leaves the
\* teams, the roles and the associations exactly as they were.
C2_DuplicateName ==
  [][(/\ IsOp(request', "create_team")
      /\ HasName(request')
      /\ UniqueViolation(teams, request'.body.data["name"])) =>
       /\ response'.status = 409
       /\ teams' = teams
       /\ roles' = roles
       /\ team_role' = team_role
    ]_vars

\* A create was refused for a stored name whose record has another
\* description than the request's, and the team has a role.
C2_Witness ==
  /\ IsOp(request, "create_team")
  /\ response.status = 409
  /\ HasName(request)
  /\ "description" \in DOMAIN request.body.data
  /\ \E id \in DOMAIN teams :
       /\ teams[id].name = request.body.data["name"]
       /\ teams[id].description # request.body.data["description"]
       /\ \E rid \in DOMAIN roles : team_role[<<id, rid>>] > 0

\* -------------------------------------------------------------------- C4
\* C4: every create_team request ends in exactly one of: 400 and nothing
\* stored (body not JSON); 409 and nothing stored (JSON body whose name is a
\* stored team's); otherwise 200 and the team stored.
C4_ThreeOutcomes ==
  [][IsOp(request', "create_team") =>
       IF ~request'.body.is_json
         THEN response'.status = 400 /\ teams' = teams
       ELSE IF HasName(request') /\ UniqueViolation(teams, request'.body.data["name"])
         THEN response'.status = 409 /\ teams' = teams
       ELSE response'.status = 200 /\ teams' # teams
    ]_vars

\* -------------------------------------------------------------------- C5
\* C5: delete_team of a stored team answers 200, after which get_team on the
\* id answers 404, get_teams does not list it and delete_team on it answers
\* 404; get_team on an id goes from 404 to another answer only by a
\* create_team that answers 200; delete_team of an id that is not stored
\* answers 404 and changes no table.
C5_Delete ==
  [][/\ \A id \in Ids :
         (IsOp(request', "delete_team") /\ request'.team_id = id) =>
           IF id \in DOMAIN teams
             THEN /\ response'.status = 200
                  /\ GetResponse("Team", teams', id).status = 404
                  /\ \A t \in GetTeamsResponse(teams').data : t.id # id
                  /\ GetTeamsResponse(teams').count = GetTeamsResponse(teams).count - 1
                  /\ \A out \in DeleteTeam(teams', roles', team_role', id) :
                       out.response.status = 404
             ELSE /\ response'.status = 404
                  /\ teams' = teams /\ roles' = roles /\ team_role' = team_role
     /\ \A id \in Ids :
         (/\ GetResponse("Team", teams, id).status = 404
          /\ GetResponse("Team", teams', id).status # 404) =>
           IsOp(request', "create_team") /\ response'.status = 200
    ]_vars

\* A team was just deleted while another team and a role are stored.
C5_Witness ==
  /\ IsOp(request, "delete_team")
  /\ response.status = 200
  /\ request.team_id \notin DOMAIN teams
  /\ teams # NoTable
  /\ roles # NoTable

\* -------------------------------------------------------------------- C6

TeamHasRole(tms, rls, tr, team_name, role_name) ==
  LET got == GetTeamRolesResponse(tms, rls, tr, team_name)
  IN got.status = 200 /\ role_name \in DOMAIN got.data

\* The step deletes the team / the role of that name.
DeletesTeam(team_name) ==
  /\ IsOp(request', "delete_team")
  /\ response'.status = 200
  /\ request'.team_id = FirstByName(teams, team_name)

DeletesRole(role_name) ==
  /\ IsOp(request', "delete_role")
  /\ response'.status = 200
  /\ request'.role_id = FirstByName(roles, role_name)

\* Both names of an assign_role request, when its body holds them.
HasBothNames(req) ==
  /\ req.body.is_json
  /\ req.body.parses
  /\ {"team_name", "role_name"} \subseteq DOMAIN req.body.data

\* C6: when assign_role answers 200, get_team_roles of the team answers 200
\* with a list holding the role's name; the name stays in the list over every
\* step that deletes neither the team nor the role (a step that changes no
\* table changes no list); and assign_role of a role the team already has
\* answers 200.
C6_AssignThenListed ==
  [][/\ (IsOp(request', "assign_role") /\ response'.status = 200) =>
         TeamHasRole(teams', roles', team_role', request'.body.data["team_name"],
                     request'.body.data["role_name"])
     /\ \/ UNCHANGED db
        \/ \A tn \in TeamNames :
             LET before == GetTeamRolesResponse(teams, roles, team_role, tn)
                 after == GetTeamRolesResponse(teams', roles', team_role', tn)
             IN (before.status = 200 /\ ~DeletesTeam(tn)) =>
                  \A rn \in DOMAIN before.data :
                    ~DeletesRole(rn) => after.status = 200 /\ rn \in DOMAIN after.data
     /\ (/\ IsOp(request', "assign_role")
         /\ HasBothNames(request')
         /\ TeamHasRole(teams, roles, team_role, request'.body.data["team_name"],
                        request'.body.data["role_name"])) =>
           response'.status = 200
    ]_vars

\* A role was just assigned to a team that holds two roles.
C6_Witness ==
  /\ IsOp(request, "assign_role")
  /\ response.status = 200
  /\ TeamHasRole(teams, roles, team_role, request.body.data["team_name"],
                 request.body.data["role_name"])
  /\ \A rn \in RoleNames :
       TeamHasRole(teams, roles, team_role, request.body.data["team_name"], rn)

\* -------------------------------------------------------------------- C7
\* C7: assign_role with a JSON body naming a team or a role that is not
\* stored answers 404 with a message naming the team when the team is
\* missing and the role when only the role is, and changes no table.
C7_AssignMissing ==
  [][(IsOp(request', "assign_role") /\ HasBothNames(request')) =>
       LET tn == request'.body.data["team_name"]
           rn == request'.body.data["role_name"]
           noTeam == FirstByName(teams, tn) = 0
           noRole == FirstByName(roles, rn) = 0
       IN (noTeam \/ noRole) =>
            /\ response'.status = 404
            /\ response'.message =
                 IF noTeam THEN <<"Team ", tn, " does not exist">>
                 ELSE <<"Role ", rn, " does not exist">>
            /\ teams' = teams /\ roles' = roles /\ team_role' = team_role
    ]_vars

\* An assign_role naming a missing team and a missing role was answered
\* with the team's name, while another team and another role are stored.
C7_Witness ==
  /\ IsOp(request, "assign_role")
  /\ response.status = 404
  /\ HasBothNames(request)
  /\ FirstByName(teams, request.body.data["team_name"]) = 0
  /\ FirstByName(roles, request.body.data["role_name"]) = 0
  /\ response.message[1] = "Team "
  /\ teams # NoTable
  /\ roles # NoTable

\* -------------------------------------------------------------------- C8
\* C8: assign_role with a JSON body that does not parse is answered 400 and
\* changes no table.
C8_MalformedIs400 ==
  [][(IsOp(request', "assign_role") /\ request'.body.is_json /\ ~request'.body.parses) =>
       /\ response'.status = 400
       /\ teams' = teams /\ roles' = roles /\ team_role' = team_role
    ]_vars

\* -------------------------------------------------------------------- C3

NamesUnique(table) ==
  \A i, j \in DOMAIN table : table[i].name = table[j].name => i = j

\* C3: under every interleaving of the concurrent write handlers no two
\* stored teams and no two stored roles have the same name, and the commit of
\* a create_team whose name another request has stored meanwhile stores
\* nothing.
C3_UniqueNames ==
  /\ [](NamesUnique(teams) /\ NamesUnique(roles))
  /\ [][\A p \in Workers :
          (/\ w[p].pc = "create_team_commit"
           /\ w'[p].pc = "done"
           /\ \E i \in DOMAIN teams : teams[i].name = w[p].row.name) =>
            teams' = teams /\ w'[p].status = 409
       ]_vars

\* Two create_team requests overlap: one has stored its team and is not yet
\* answered, the other is about to commit the same name.
C3_Witness ==
  \E p, q \in Workers :
    /\ w[p].pc = "done" /\ w[p].op = "create_team" /\ w[p].status = 200
    /\ w[q].pc = "create_team_commit"
    /\ teams # NoTable
    /\ \A i \in DOMAIN teams : teams[i].name = w[q].row.name

\* -------------------------------------------------------------------- C9

CommitPcs ==
  {"create_team_commit", "create_role_commit", "delete_team_commit",
   "delete_role_commit", "assign_role_commit"}

\* The worker's commit raised: the handler did not get to its return 200.
CommitRaised(p) ==
  /\ w[p].pc \in CommitPcs
  /\ w'[p].pc = "done"
  /\ w'[p].status # 200

\* C9 as stated: whenever the commit of a write handler raises, the response
\* is 409 and nothing of the request is stored.
C9_AllWrapped ==
  [][\A p \in Workers :
       CommitRaised(p) =>
         /\ w'[p].status = 409
         /\ teams' = teams /\ roles' = roles /\ team_role' = team_role
    ]_vars

\* C9 amended: when the commit of create_team or create_role raises, the
\* response is 409; when the commit of delete_team, delete_role or
\* assign_role raises, the response is 500; in both cases nothing of the
\* request is stored.
C9_OnlyCreatesWrapped ==
  [][\A p \in Workers :
       CommitRaised(p) =>
         /\ w'[p].status =
              IF w[p].pc \in {"create_team_commit", "create_role_commit"} THEN 409 ELSE 500
         /\ teams' = teams /\ roles' = roles /\ team_role' = team_role
    ]_vars

\* One worker's create_role commit raised (409) while the other's
\* delete_team commit raised (500).
C9_Witness ==
  \E p, q \in Workers :
    /\ w[p].pc = "done" /\ w[p].op = "create_role" /\ w[p].status = 409
    /\ w[q].pc = "done" /\ w[q].op = "delete_team" /\ w[q].status = 500

\* ------------------------------------------------------------------- C10
\* C10: under every interleaving of the concurrent write handlers every row
\* of team_role refers to a stored team and a stored role (so no deleted
\* role is listed for a team, and a team created with the id of a deleted
\* team starts without roles).
C10_ReferentialIntegrity ==
  \A pair \in Ids \X Ids :
    team_role[pair] > 0 => pair[1] \in DOMAIN teams /\ pair[2] \in DOMAIN roles

\* An assign_role found its team and its role, a delete committed before its
\* own commit, and the storage refused the row.
C10_Witness ==
  \E p \in Workers :
    /\ w[p].pc = "done" /\ w[p].op = "assign_role" /\ w[p].status = 500
    /\ \E pair \in Ids \X Ids : team_role[pair] > 0

====
